---- MODULE Spec2Model ----
(***************************************************************************)
(* Staircase-sweep acquisition of hrms (measurement.py): the sessions of   *)
(* CustomizedStaircaseSweep and TSEQStaircaseSweep driving a Keithley      *)
(* 6517A, with the measurement-range decision taken after every step.      *)
(*                                                                         *)
(* Voltages are integers (volts).  A current reading s*m*10^e ampere is    *)
(* the record [sg |-> s, m |-> m, e |-> e] with m = 0 or 100 <= m <= 999;  *)
(* sg = 0 is the missing value (NaN).  A measurement range 2*10^k ampere   *)
(* is the integer k.                                                       *)
(***************************************************************************)
EXTENDS Integers, Sequences, FiniteSets, TLC

VARIABLES
    mode,            \* class of the measurement object
    sweep_arguments, \* self.sweep_arguments (NoArgs before set_parameters)
    name,            \* self.name, the measurement name
    last_call,       \* the last method called on the object, with max_v and step_v
    interlock,       \* what the instrument last reported for its interlock
    configured,      \* configure_k6517a has run
    auto_range,      \* self._auto_range
    dut,             \* the sample connected for the session: the readings it can
                     \* produce, phase by phase of a sweep
    out,             \* instrument: source output enabled
    vs_range,        \* instrument: res_vsource_range
    level_vals,      \* driver: bound of the res_vsource_level validator
    instr_range,     \* instrument: measurement range in effect (exponent)
    pc,              \* position of the session
    err,             \* exception raised by the last call ("" if none)
    sweep,           \* locals of _do_sweep: [i, start, step, stop]
    ramp,            \* values of np.arange still to visit in this sweep
    run,             \* locals of _single_run
    meas_range,      \* self._meas_range
    data_dict,       \* self.data_dict: sweep number -> arrays
    saved,           \* results handed to datasaver.add_result, in order
    logged,          \* argument of log_data (<<>> until it is called)
    cmds,            \* instrument commands issued since construction
    clock            \* instrument timestamp counter

vars == <<mode, sweep_arguments, name, last_call, interlock, configured, auto_range, dut,
          out, vs_range, level_vals, instr_range, pc, err, sweep, ramp, run,
          meas_range, data_dict, saved, logged, cmds, clock>>

instrVars == <<out, vs_range, level_vals, instr_range, cmds, clock>>
sessVars == <<sweep, ramp, run, meas_range, data_dict, saved, logged>>
confVars == <<mode, sweep_arguments, name, last_call, interlock, configured, auto_range, dut>>

-----------------------------------------------------------------------------
(* Bounds of the model *)

\* num_sweep is drawn from 1..MaxSweeps
MaxSweeps == 2
\* npts_per_step is drawn from 1..MaxNpts
MaxNpts == 2
\* a session reads at most this many samples in all
MaxReads == 10
\* and at most this many when the sample can produce two different readings
MaxBranchReads == 4

-----------------------------------------------------------------------------
(* Program constants *)

MaxVoltage == 1000
HazardVoltage == 36
VsLow == 100
VsHigh == 1000
Flag142Limit == 5
SafeRangeExp == -9
FragileRangeExp == -10
ClampExp == -15
ClampFlrExp == -13
ClampCerExp == -11
OverflowCapExp == -3
LowestRangeExp == -11
MaxCurrentRangeExp == -2

-----------------------------------------------------------------------------
(* Readings *)

Rd(s, m, e) == [sg |-> s, m |-> m, e |-> e]
NaN == Rd(0, 0, 0)
Zero == Rd(1, 0, 0)
InBand == Rd(1, 142, -12)        \* 1.42e-10 A
NegInBand == Rd(-1, 142, -12)
BelowBand == Rd(1, 100, -12)     \* 1.00e-10 A
Nano == Rd(1, 900, -12)          \* 0.9e-9 A
Micro == Rd(1, 500, -8)          \* 5e-6 A
Tiny == Rd(1, 150, -17)          \* 1.5e-15 A
OneAmp == Rd(1, 100, -2)         \* 1 A
TopOfScale == Rd(1, 205, -4)     \* 20.5 mA, within the 20 mA range's 21 mA
Overflow == Rd(1, 990, 35)       \* +9.9e37, the overflow reading
NegOverflow == Rd(-1, 990, 35)   \* -9.9e37

\* the samples under test. A sample is a sequence of phases: read k of a
\* sweep yields a reading from phase k, the last phase lasting to the end of
\* the sweep. The samples of one phase yield readings from one set throughout.
DutChoices == { <<{InBand}>>, <<{Micro}>>, <<{Overflow}>>, <<{Zero}>>,
                <<{TopOfScale}>>,
                <<{InBand, Micro}>>, <<{Zero, Nano}>>,
                <<{Overflow, NegOverflow}>>, <<{Tiny, OneAmp}>>,
                <<{InBand}, {InBand}, {InBand}, {InBand}, {InBand}, {InBand},
                  {Zero}>>,
                <<{InBand}, {InBand}, {InBand}, {InBand}, {InBand}, {InBand},
                  {Micro}>>,
                <<{InBand}, {InBand}, {InBand}, {Micro}, {InBand}>> }

\* the readings sample d can give at read k of a sweep (k = 1, 2, ...)
Yields(d, k) == d[IF k < Len(d) THEN k ELSE Len(d)]

\* the sample gives one determined reading at every read
Steady(d) == \A j \in 1..Len(d) : Cardinality(d[j]) = 1

\* np.abs
Abs(r) == [r EXCEPT !.sg = IF r.sg = 0 THEN 0 ELSE 1]
AbsInt(x) == IF x < 0 THEN -x ELSE x

\* a > b for non-negative magnitudes a = [m, e], b = [m, e]
MagGt(a, b) ==
    IF a.m = 0 THEN FALSE
    ELSE IF b.m = 0 THEN TRUE
    ELSE a.e > b.e \/ (a.e = b.e /\ a.m > b.m)

MagGe(a, b) == a = b \/ MagGt(a, b)

\* current > 1 for a signed reading (NaN compares false)
GtOne(r) == r.sg = 1 /\ MagGt(r, Rd(1, 100, -2))

-----------------------------------------------------------------------------
(* Measurement-range decision of _single_run, lines 459-517 *)

\* floor(log10(absr/2)) and ceil(log10(absr/2)) for absr = m*10^e, 100 <= m <= 999
FloorLog(absr) == absr.e + (IF absr.m < 200 THEN 1 ELSE 2)
CeilLog(absr) == absr.e + (IF absr.m <= 200 THEN 2 ELSE 3)

\* flr of lines 475, 479-480; a zero reading gives 2*10^(-inf) = 0 < 2e-15
Flr(absr) ==
    IF absr.m = 0 THEN ClampFlrExp
    ELSE IF FloorLog(absr) < ClampExp THEN ClampFlrExp ELSE FloorLog(absr)

\* cer of lines 476, 481-482 and the 2e-9 exception of line 484
Cer(absr) ==
    LET c0 == IF absr.m = 0 THEN ClampCerExp
              ELSE IF CeilLog(absr) < ClampExp THEN ClampCerExp ELSE CeilLog(absr)
    IN IF c0 = SafeRangeExp /\ MagGt(absr, Rd(1, 800, -12)) THEN c0 + 1 ELSE c0

\* 1.4e-10 <= absr <= 1.44e-10
InProblemBand(absr) ==
    MagGe(absr, Rd(1, 140, -12)) /\ MagGe(Rd(1, 144, -12), absr)

\* 0 < absr < 1
BelowOne(absr) == absr.m # 0 /\ MagGt(Rd(1, 100, -2), absr)

\* variant: a range that is too fine is widened to the floor
RuleWriteWidenToFloor(absr, mr_now) ==
    IF mr_now > Cer(absr) THEN <<Cer(absr)>>
    ELSE IF mr_now <= Flr(absr)
         THEN IF BelowOne(absr) THEN <<Flr(absr)>>
              ELSE IF MagGt(absr, Rd(1, 100, -2))
                   THEN IF mr_now <= OverflowCapExp THEN <<mr_now + 1>> ELSE <<>>
                   ELSE <<>>
         ELSE <<>>

\* variant: a range between floor and ceiling is set to the ceiling
RuleWriteAlwaysCeiling(absr, mr_now) ==
    IF mr_now > Cer(absr) THEN <<Cer(absr)>>
    ELSE IF mr_now <= Flr(absr)
         THEN IF BelowOne(absr) THEN <<Cer(absr)>>
              ELSE IF MagGt(absr, Rd(1, 100, -2))
                   THEN IF mr_now <= OverflowCapExp THEN <<mr_now + 1>> ELSE <<>>
                   ELSE <<>>
         ELSE <<Cer(absr)>>

\* variant: an overflow reading does not widen the range
RuleWriteNoOverflow(absr, mr_now) ==
    IF mr_now > Cer(absr) THEN <<Cer(absr)>>
    ELSE IF mr_now <= Flr(absr)
         THEN IF BelowOne(absr) THEN <<Cer(absr)>> ELSE <<>>
         ELSE <<>>

\* variant: a range that is too fine is widened only on overflow
RuleWriteNoWiden(absr, mr_now) ==
    IF mr_now > Cer(absr) THEN <<Cer(absr)>>
    ELSE IF mr_now <= Flr(absr)
         THEN IF BelowOne(absr) THEN <<>>
              ELSE IF MagGt(absr, Rd(1, 100, -2))
                   THEN IF mr_now <= OverflowCapExp THEN <<mr_now + 1>> ELSE <<>>
                   ELSE <<>>
         ELSE <<>>

\* variant: a range that is too coarse is left alone
RuleWriteNoNarrow(absr, mr_now) ==
    IF mr_now > Cer(absr) THEN <<>>
    ELSE IF mr_now <= Flr(absr)
         THEN IF BelowOne(absr) THEN <<Cer(absr)>>
              ELSE IF MagGt(absr, Rd(1, 100, -2))
                   THEN IF mr_now <= OverflowCapExp THEN <<mr_now + 1>> ELSE <<>>
                   ELSE <<>>
         ELSE <<>>

\* lines 487-509: the range write chosen from the reading, <<>> if none
RuleWrite(absr, mr_now) ==
    IF mr_now > Cer(absr) THEN <<Cer(absr)>>
    ELSE IF mr_now <= Flr(absr)
         THEN IF BelowOne(absr) THEN <<Cer(absr)>>
              ELSE IF MagGt(absr, Rd(1, 100, -2))
                   THEN IF mr_now <= OverflowCapExp THEN <<mr_now + 1>> ELSE <<>>
                   ELSE <<>>
         ELSE <<>>

\* lines 511-514: the sticky-fault counter and the flagged step indices
GuardCounts(absr, mr_now) == mr_now = FragileRangeExp /\ InProblemBand(absr)

\* variant: the guard forces the safe range from the second count on
GuardWriteAtTwo(mr_now, flag) ==
    IF mr_now = FragileRangeExp /\ flag >= 2 THEN <<SafeRangeExp>> ELSE <<>>

\* lines 511, 515-517: the write forced by the sticky-fault guard
GuardWrite(mr_now, flag) ==
    IF mr_now = FragileRangeExp /\ flag >= Flag142Limit THEN <<SafeRangeExp>> ELSE <<>>

\* variant: the decision is taken whatever the auto range flag
RangeDecisionAlways(auto, c0, mr_now, flag, idx, n) ==
    LET absr == Abs(c0)
        f == IF GuardCounts(absr, mr_now) THEN flag + 1 ELSE flag
        ix == IF GuardCounts(absr, mr_now) THEN Append(idx, n) ELSE idx
    IN [writes |-> RuleWrite(absr, mr_now) \o GuardWrite(mr_now, f),
        flag |-> f, idx |-> ix]

\* lines 471-517 as a whole: range writes, in order, and the new counters
RangeDecision(auto, c0, mr_now, flag, idx, n) ==
    IF auto
    THEN [writes |-> <<>>, flag |-> flag, idx |-> idx]
    ELSE LET absr == Abs(c0)
             f == IF GuardCounts(absr, mr_now) THEN flag + 1 ELSE flag
             ix == IF GuardCounts(absr, mr_now) THEN Append(idx, n) ELSE idx
         IN [writes |-> RuleWrite(absr, mr_now) \o GuardWrite(mr_now, f),
             flag |-> f, idx |-> ix]

-----------------------------------------------------------------------------
(* Sweep parameters *)

NoArgs == [max_v |-> 0, step_v |-> 0, npts_per_step |-> 0, num_sweep |-> 0,
           start_from |-> "", relax_time |-> 0, is_float |-> FALSE]

\* max_v and step_v as passed to set_parameters; f tells whether they are
\* Python floats (np.arange then yields floats) or ints
VoltInputs == { [max_v |-> -1, step_v |-> 2, f |-> FALSE],
                [max_v |-> 1001, step_v |-> 2, f |-> FALSE],
                [max_v |-> 0, step_v |-> 0, f |-> FALSE],
                [max_v |-> 3, step_v |-> -1, f |-> FALSE],
                [max_v |-> 3, step_v |-> 4, f |-> FALSE],
                [max_v |-> 3, step_v |-> 0, f |-> FALSE],
                [max_v |-> 3, step_v |-> 2, f |-> FALSE],
                [max_v |-> 10, step_v |-> 2, f |-> FALSE],
                [max_v |-> 5, step_v |-> 2, f |-> FALSE],
                [max_v |-> 5, step_v |-> 2, f |-> TRUE],
                [max_v |-> 40, step_v |-> 40, f |-> FALSE],
                [max_v |-> 150, step_v |-> 100, f |-> FALSE] }
RelaxInputs == { 0, 60 }
StartInputs == { "max", "-max" }

\* Numbers(lo, hi).validate(x) of qcodes: "" if accepted, else the exception.
\* Numbers(lo, hi) itself raises TypeError unless hi > lo.
Numbers(lo, hi, x) ==
    IF ~(hi > lo) THEN "TypeError"
    ELSE IF x < lo \/ x > hi THEN "ValueError"
    ELSE ""

\* variant: only max_v is validated
ValidateMaxOnly(max_v, step_v) == Numbers(0, MaxVoltage, max_v)

\* lines 68-69
ValidateParameters(max_v, step_v) ==
    IF Numbers(0, MaxVoltage, max_v) # "" THEN Numbers(0, MaxVoltage, max_v)
    ELSE Numbers(0, max_v, step_v)

\* get_meas_name, lines 147-169: the fields the name is built from
MeasName(a) == <<a.step_v, a.max_v, a.num_sweep, a.start_from, a.relax_time \div 60>>

\* variant: the interval is closed, stop included
RECURSIVE ArangeInclusive(_, _, _)
ArangeInclusive(start, stop, step) ==
    IF (step > 0 /\ start <= stop) \/ (step < 0 /\ start >= stop)
    THEN <<start>> \o ArangeInclusive(start + step, stop, step)
    ELSE <<>>

\* np.arange(start, stop, step) for step # 0: the values of the half-open
\* interval [start, stop) in steps of step
RECURSIVE Arange(_, _, _)
Arange(start, stop, step) ==
    IF (step > 0 /\ start < stop) \/ (step < 0 /\ start > stop)
    THEN <<start>> \o Arange(start + step, stop, step)
    ELSE <<>>

\* lines 374-381: start, stop and step of the first sweep
FirstSweep(a) ==
    IF a.start_from = "max"
    THEN [i |-> 0, start |-> a.max_v, step |-> -a.step_v, stop |-> -a.max_v]
    ELSE [i |-> 0, start |-> -a.max_v, step |-> a.step_v, stop |-> a.max_v]

\* samples a session with these arguments reads in all
TotalReads(a) ==
    IF a.step_v = 0 THEN 0
    ELSE ((2 * a.max_v + a.step_v - 1) \div a.step_v) * a.npts_per_step * a.num_sweep

NoSweep == [i |-> 0, start |-> 0, step |-> 0, stop |-> 0]
NoRun == [curr |-> <<>>, volt |-> <<>>, time |-> <<>>, flag142pA |-> 0,
          flag142pAidx |-> <<>>, v |-> 0, n |-> 0, c |-> <<>>, t |-> <<>>]

\* entries of the voltage and time arrays
Num(x) == [nan |-> FALSE, val |-> x]
Missing == [nan |-> TRUE, val |-> 0]

\* ranges the instrument may be in after preset()
PresetRanges == { -10, -8 }

Call(op, max_v, step_v) == [op |-> op, max_v |-> max_v, step_v |-> step_v]

Init ==
    /\ mode \in {"customized", "tseq"}
    /\ sweep_arguments = NoArgs
    /\ name = <<>>
    /\ last_call = Call("__init__", 0, 0)
    /\ interlock = "unread"
    /\ configured = FALSE
    /\ auto_range = TRUE
    /\ dut = <<>>
    /\ out = FALSE
    /\ vs_range = VsLow
    /\ level_vals = VsLow
    /\ instr_range = MaxCurrentRangeExp
    /\ pc = "idle"
    /\ err = ""
    /\ sweep = NoSweep
    /\ ramp = <<>>
    /\ run = NoRun
    /\ meas_range = 0
    /\ data_dict = <<>>
    /\ saved = <<>>
    /\ logged = <<>>
    /\ cmds = <<>>
    /\ clock = 0

-----------------------------------------------------------------------------
(* Configuration calls *)

\* StaircaseSweep.set_parameters, lines 56-80
SetParameters ==
    /\ pc = "idle"
    /\ \E vi \in VoltInputs :
         LET e == ValidateParameters(vi.max_v, vi.step_v) IN
         /\ last_call' = Call("set_parameters", vi.max_v, vi.step_v)
         /\ IF e # ""
            THEN /\ err' = e
                 /\ UNCHANGED <<sweep_arguments, name>>
            ELSE \E np \in 1..MaxNpts, ns \in 1..MaxSweeps, sf \in StartInputs,
                    rt \in RelaxInputs :
                   LET a == [max_v |-> vi.max_v, step_v |-> vi.step_v,
                             npts_per_step |-> np, num_sweep |-> ns,
                             start_from |-> sf, relax_time |-> rt, is_float |-> vi.f]
                   IN /\ TotalReads(a) <= MaxReads
                      /\ err' = ""
                      /\ sweep_arguments' = a
                      /\ name' = MeasName(a)
    /\ UNCHANGED <<mode, interlock, configured, auto_range, dut, pc>>
    /\ UNCHANGED instrVars
    /\ UNCHANGED sessVars

\* CustomizedStaircaseSweep.configure_k6517a, lines 340-359
ConfigureVsRange(max_v) == IF max_v > VsLow THEN VsHigh ELSE VsLow

ConfigureCustomized ==
    /\ pc = "idle"
    /\ mode = "customized"
    /\ sweep_arguments # NoArgs
    /\ ~configured
    /\ \E am \in BOOLEAN : auto_range' = am
    /\ instr_range' \in PresetRanges
    /\ configured' = TRUE
    /\ vs_range' = ConfigureVsRange(sweep_arguments.max_v)
    /\ level_vals' = ConfigureVsRange(sweep_arguments.max_v)
    /\ out' = FALSE
    /\ cmds' = cmds \o << <<"zerocheck", 1>>, <<"preset", 0>>,
                         <<"res_vsource_range", ConfigureVsRange(sweep_arguments.max_v)>>,
                         <<"auto_meas_range", IF auto_range' THEN 1 ELSE 0>>,
                         <<"zerocheck", 0>> >>
    /\ err' = ""
    /\ last_call' = Call("configure_k6517a", 0, 0)
    /\ UNCHANGED <<mode, sweep_arguments, name, interlock, dut, pc, clock>>
    /\ UNCHANGED sessVars

-----------------------------------------------------------------------------
(* CustomizedStaircaseSweep session *)

\* an exception leaves the session: nothing after the raising statement runs
Raise(e) ==
    /\ pc' = "failed"
    /\ err' = e

\* variant: the check uses the source-range threshold instead of 36 V
DoorRefusesAbove100(max_v, report) == max_v > VsLow /\ report = "open"

\* door_closed_or_not, lines 82-87, run by self.run() on entry: TRUE if it raises
DoorRefuses(max_v, report) == max_v >= HazardVoltage /\ report = "open"

\* line 85 queries the interlock only for a hazardous max_v
InterlockReports(max_v) ==
    IF max_v >= HazardVoltage THEN {"open", "closed"} ELSE {interlock}

\* start_sweep, lines 365-383, up to the entry of `with self.run()` in line 389
StartSweep ==
    /\ pc = "idle"
    /\ mode = "customized"
    /\ configured
    /\ last_call' = Call("start_sweep", 0, 0)
    /\ interlock' \in InterlockReports(sweep_arguments.max_v)
    /\ IF DoorRefuses(sweep_arguments.max_v, interlock')
       THEN /\ Raise("RuntimeError")
            /\ UNCHANGED sweep
       ELSE /\ pc' = "vs_check"
            /\ err' = ""
            /\ sweep' = FirstSweep(sweep_arguments)
    /\ data_dict' = <<>>
    /\ dut' \in { d \in DutChoices : Steady(d)
                       \/ TotalReads(sweep_arguments) <= MaxBranchReads }
    /\ UNCHANGED <<mode, sweep_arguments, name, configured, auto_range>>
    /\ UNCHANGED instrVars
    /\ UNCHANGED <<ramp, run, meas_range, saved, logged>>

\* variant: the source range is never raised at sweep start
MustWidenNever(stop, range) == FALSE

\* variant: a source range of exactly 100 is not raised
MustWidenBelow100(stop, range) == AbsInt(stop) > VsLow /\ range < VsLow

\* line 440: the source range has to be raised for this sweep
MustWiden(stop, range) == AbsInt(stop) > VsLow /\ range <= VsLow

\* _single_run, lines 431-441
CheckVsourceRange ==
    /\ pc = "vs_check"
    /\ run' = NoRun
    /\ IF MustWiden(sweep.stop, vs_range)
       THEN /\ vs_range' = VsHigh
            /\ level_vals' = VsHigh
            /\ cmds' = Append(cmds, <<"res_vsource_range", VsHigh>>)
       ELSE UNCHANGED <<vs_range, level_vals, cmds>>
    /\ pc' = "operate"
    /\ UNCHANGED confVars
    /\ UNCHANGED <<out, instr_range, clock, err, sweep, ramp, meas_range,
                   data_dict, saved, logged>>

\* _single_run, line 443
OperateOn ==
    /\ pc = "operate"
    /\ out' = TRUE
    /\ cmds' = Append(cmds, <<"res_vsource_operate", 1>>)
    /\ pc' = "get_range"
    /\ UNCHANGED confVars
    /\ UNCHANGED <<vs_range, level_vals, instr_range, clock, err>>
    /\ UNCHANGED sessVars

\* _single_run, lines 444-445: read the range, build the ramp
ReadMeasRange ==
    /\ pc = "get_range"
    /\ meas_range' = instr_range
    /\ IF sweep.step = 0
       THEN /\ Raise("ZeroDivisionError")
            /\ UNCHANGED ramp
       ELSE /\ ramp' = Arange(sweep.start, sweep.stop, sweep.step)
            /\ pc' = IF ramp' = <<>> THEN "finish" ELSE "level"
            /\ UNCHANGED err
    /\ UNCHANGED confVars
    /\ UNCHANGED instrVars
    /\ UNCHANGED <<sweep, run, data_dict, saved, logged>>

\* the validator of res_vsource_level, driver lines 247-252 and 530
LevelAccepted(v, bound) == -bound <= v /\ v <= bound

\* _single_run, lines 446-449
SetLevel ==
    /\ pc = "level"
    /\ LET v == Head(ramp) IN
         IF LevelAccepted(v, level_vals)
         THEN /\ cmds' = Append(cmds, <<"res_vsource_level", v>>)
              /\ run' = [run EXCEPT !.v = v, !.c = <<>>, !.t = <<>>,
                                    !.n = (v - sweep.start) \div sweep.step]
              /\ pc' = "read"
              /\ UNCHANGED err
         ELSE /\ Raise("ValueError")
              /\ UNCHANGED <<cmds, run>>
    /\ UNCHANGED confVars
    /\ UNCHANGED <<out, vs_range, level_vals, instr_range, clock>>
    /\ UNCHANGED <<sweep, ramp, meas_range, data_dict, saved, logged>>

\* _single_run, lines 450-457: one pass of the while loop
ReadSample ==
    /\ pc = "read"
    /\ \E r \in Yields(dut, Len(run.curr) + Len(run.c) + 1) :
         run' = [run EXCEPT !.c = Append(@, r), !.t = Append(@, Num(clock + 1))]
    /\ clock' = clock + 1
    /\ cmds' = cmds \o << <<"sleep", 0>>, <<"get_data", 0>> >>
    /\ pc' = IF Len(run'.c) < sweep_arguments.npts_per_step THEN "read" ELSE "range"
    /\ UNCHANGED confVars
    /\ UNCHANGED <<out, vs_range, level_vals, instr_range, err>>
    /\ UNCHANGED <<sweep, ramp, meas_range, data_dict, saved, logged>>

\* the validator of meas_range for the current function, driver lines 52-53
\* and 269-274: Numbers(0, 21e-3)
MeasRangeAccepted(k) == k <= MaxCurrentRangeExp

\* the range the instrument takes for a commanded value: the lowest range
\* that holds it
InstrumentRange(k) == IF k < LowestRangeExp THEN LowestRangeExp ELSE k

\* variant: the sweep records the range the instrument holds after the write
WrittenAsHeld(st, k) ==
    [mr |-> InstrumentRange(k), ir |-> InstrumentRange(k),
     log |-> Append(st.log, <<"meas_range", k>>)]

\* lines 492-493, 503-504, 508-509, 516-517: meas_range(k) is sent, then k is
\* recorded in self._meas_range
Written(st, k) ==
    [mr |-> k, ir |-> InstrumentRange(k),
     log |-> Append(st.log, <<"meas_range", k>>)]

\* the first j range writes of ws reach the instrument
RECURSIVE ApplyWrites(_, _, _)
ApplyWrites(ws, j, st) ==
    IF j = 0 \/ ws = <<>> THEN st
    ELSE ApplyWrites(Tail(ws), j - 1, Written(st, Head(ws)))

\* number of leading writes the validator accepts
RECURSIVE AcceptedPrefix(_)
AcceptedPrefix(ws) ==
    IF ws = <<>> \/ ~MeasRangeAccepted(Head(ws)) THEN 0
    ELSE 1 + AcceptedPrefix(Tail(ws))

\* variant: only the first sample of the step is kept
AppendStepFirstOnly(r) ==
    [r EXCEPT !.curr = Append(@, r.c[1]),
              !.volt = Append(@, Num(r.v)),
              !.time = Append(@, r.t[1])]

\* lines 519-523: the samples of the step go to the lists of the sweep
AppendStep(r) ==
    [r EXCEPT !.curr = @ \o r.c,
              !.volt = @ \o [j \in 1..Len(r.c) |-> Num(r.v)],
              !.time = @ \o r.t]

\* variant: the decision is taken from the last reading of the step
DecisionReadingLast(c) == c[Len(c)]

\* line 460: the decision is taken from the first reading of the step
DecisionReading(c) == c[1]

\* _single_run, lines 459-523: range decision of the step, then the appends
RangeStep ==
    /\ pc = "range"
    /\ LET d == RangeDecision(auto_range, DecisionReading(run.c), meas_range,
                              run.flag142pA, run.flag142pAidx, run.n)
           ok == AcceptedPrefix(d.writes)
           st == ApplyWrites(d.writes, ok,
                             [mr |-> meas_range, ir |-> instr_range, log |-> cmds])
           r1 == [run EXCEPT !.flag142pA = d.flag, !.flag142pAidx = d.idx]
       IN /\ meas_range' = st.mr
          /\ instr_range' = st.ir
          /\ cmds' = st.log
          /\ IF ok < Len(d.writes)
             THEN /\ Raise("ValueError")
                  /\ run' = r1
                  /\ UNCHANGED ramp
             ELSE /\ run' = AppendStep(r1)
                  /\ ramp' = Tail(ramp)
                  /\ pc' = IF ramp' = <<>> THEN "finish" ELSE "level"
                  /\ UNCHANGED err
    /\ UNCHANGED confVars
    /\ UNCHANGED <<out, vs_range, level_vals, clock>>
    /\ UNCHANGED <<sweep, data_dict, saved, logged>>

\* lines 531-535: entry i of each array is overwritten for every flagged i
\* (Python indices are 0-based)
Invalidate(arr, idx, missing) ==
    [j \in 1..Len(arr) |->
        IF \E q \in 1..Len(idx) : idx[q] + 1 = j THEN missing ELSE arr[j]]

\* line 537: current[current > 1] = np.nan
RemoveBadPoints(curr) ==
    [j \in 1..Len(curr) |-> IF GtOne(curr[j]) THEN NaN ELSE curr[j]]

\* voltage[i] = np.nan raises ValueError on an integer array
NanAssignRaises(r, is_float) ==
    r.flag142pA >= Flag142Limit /\ r.flag142pAidx # <<>> /\ ~is_float

\* _single_run, lines 525-539
FinishSingleRun ==
    /\ pc = "finish"
    /\ IF NanAssignRaises(run, sweep_arguments.is_float)
       THEN /\ Raise("ValueError")
            /\ UNCHANGED run
       ELSE /\ LET flagged == IF run.flag142pA >= Flag142Limit
                              THEN run.flag142pAidx ELSE <<>>
               IN run' = [run EXCEPT
                     !.curr = RemoveBadPoints(Invalidate(run.curr, flagged, NaN)),
                     !.time = Invalidate(run.time, flagged, Missing),
                     !.volt = Invalidate(run.volt, flagged, Missing)]
            /\ pc' = "after_run"
            /\ UNCHANGED err
    /\ UNCHANGED confVars
    /\ UNCHANGED instrVars
    /\ UNCHANGED <<sweep, ramp, meas_range, data_dict, saved, logged>>

\* variant: every record is keyed 1
RecordUnnumbered(i, r) == [sweep |-> 1, current |-> r.curr, voltage |-> r.volt,
                           time |-> r.time]

\* the arrays of one sweep, as kept in data_dict and handed to add_result
Record(i, r) == [sweep |-> i + 1, current |-> r.curr, voltage |-> r.volt,
                 time |-> r.time]

\* variant: start and stop are negated, the step is not
ReverseKeepStep(s) == [s EXCEPT !.i = @ + 1, !.start = -s.start, !.stop = -s.stop]

\* line 414: sweep back
Reverse(s) == [s EXCEPT !.i = @ + 1, !.start = -s.start, !.step = -s.step,
                        !.stop = -s.stop]

\* variant: add_result is not reached inside the loop
AddResultSkipped(results, rec) == results

\* lines 417-420: the arrays of the sweep go to the datasaver
AddResult(results, rec) == Append(results, rec)

\* lines 394-395: the source is switched off between sweeps
RelaxOff(relax_time) == relax_time # 0

\* _do_sweep, lines 392-420, after _single_run has returned
AfterSingleRun ==
    /\ pc = "after_run"
    /\ IF RelaxOff(sweep_arguments.relax_time)
       THEN /\ out' = FALSE
            /\ cmds' = Append(cmds, <<"res_vsource_operate", 0>>)
       ELSE UNCHANGED <<out, cmds>>
    /\ data_dict' = Append(data_dict, Record(sweep.i, run))
    /\ sweep' = Reverse(sweep)
    /\ saved' = AddResult(saved, Record(sweep.i, run))
    /\ pc' = IF sweep'.i < sweep_arguments.num_sweep THEN "vs_check" ELSE "log"
    /\ UNCHANGED confVars
    /\ UNCHANGED <<vs_range, level_vals, instr_range, clock, err>>
    /\ UNCHANGED <<ramp, run, meas_range, logged>>

\* _do_sweep, lines 421-423
LogData ==
    /\ pc = "log"
    /\ mode = "customized"
    /\ logged' = <<data_dict>>
    /\ pc' = "final_off"
    /\ UNCHANGED confVars
    /\ UNCHANGED instrVars
    /\ UNCHANGED <<err, sweep, ramp, run, meas_range, data_dict, saved>>

\* start_sweep, line 385
FinalOperateOff ==
    /\ pc = "final_off"
    /\ out' = FALSE
    /\ cmds' = Append(cmds, <<"res_vsource_operate", 0>>)
    /\ pc' = "done"
    /\ UNCHANGED confVars
    /\ UNCHANGED <<vs_range, level_vals, instr_range, clock, err>>
    /\ UNCHANGED sessVars

\* positions of the customized session, and those whose next statement
\* talks to the instrument
CustomPcs == {"vs_check", "operate", "get_range", "level", "read", "range",
              "finish", "after_run", "log", "final_off"}

TalksToInstrument ==
    \/ pc \in {"operate", "get_range", "level", "read", "final_off"}
    \/ pc = "vs_check" /\ AbsInt(sweep.stop) > VsLow
    \/ pc = "after_run" /\ RelaxOff(sweep_arguments.relax_time)
    \/ pc = "range" /\ RangeDecision(auto_range, DecisionReading(run.c), meas_range,
                           run.flag142pA, run.flag142pAidx, run.n).writes # <<>>

\* a read or write of the instrument fails (VISA error); the customized
\* session has no handler, the exception leaves start_sweep
DeviceError ==
    /\ mode = "customized"
    /\ pc \in CustomPcs
    /\ TalksToInstrument
    /\ Raise("DeviceError")
    /\ UNCHANGED confVars
    /\ UNCHANGED instrVars
    /\ UNCHANGED sessVars

\* KeyboardInterrupt during the customized session: no handler either
UserInterrupt ==
    /\ mode = "customized"
    /\ pc \in CustomPcs
    /\ Raise("KeyboardInterrupt")
    /\ UNCHANGED confVars
    /\ UNCHANGED instrVars
    /\ UNCHANGED sessVars

-----------------------------------------------------------------------------
(* TSEQStaircaseSweep session *)

\* readings the instrument buffer returns for one test sequence
TseqPoints == 2

\* TSEQStaircaseSweep.configure_k6517a, lines 211-223
ConfigureTseq ==
    /\ pc = "idle"
    /\ mode = "tseq"
    /\ sweep_arguments # NoArgs
    /\ ~configured
    /\ \E am \in BOOLEAN : auto_range' = am
    /\ instr_range' \in PresetRanges
    /\ configured' = TRUE
    /\ out' = FALSE
    /\ cmds' = cmds \o << <<"zerocheck", 1>>, <<"preset", 0>>,
                         <<"auto_meas_range", IF auto_range' THEN 1 ELSE 0>>,
                         <<"tseq_type", 0>> >>
    /\ err' = ""
    /\ last_call' = Call("configure_k6517a", 0, 0)
    /\ UNCHANGED <<mode, sweep_arguments, name, interlock, dut, pc, clock, vs_range,
                   level_vals>>
    /\ UNCHANGED sessVars

\* TSEQStaircaseSweep.start_sweep, lines 229-244, up to the entry of
\* `with self.run()` in line 248
StartSweepTseq ==
    /\ pc = "idle"
    /\ mode = "tseq"
    /\ configured
    /\ last_call' = Call("start_sweep", 0, 0)
    /\ interlock' \in InterlockReports(sweep_arguments.max_v)
    /\ IF DoorRefuses(sweep_arguments.max_v, interlock')
       THEN /\ Raise("RuntimeError")
            /\ UNCHANGED sweep
       ELSE /\ pc' = "t_setup"
            /\ err' = ""
            /\ sweep' = FirstSweep(sweep_arguments)
    /\ data_dict' = <<>>
    /\ dut' \in { d \in DutChoices : Len(d) = 1 /\
                       (Steady(d)
                        \/ TseqPoints * sweep_arguments.num_sweep <= MaxBranchReads) }
    /\ UNCHANGED <<mode, sweep_arguments, name, configured, auto_range>>
    /\ UNCHANGED instrVars
    /\ UNCHANGED <<ramp, run, meas_range, saved, logged>>

\* _do_sweep, lines 251-256
TseqSetup ==
    /\ pc = "t_setup"
    /\ cmds' = cmds \o << <<"tseq_stsweep_start", sweep.start>>,
                         <<"tseq_stsweep_step", sweep.step>>,
                         <<"tseq_stsweep_stop", sweep.stop>> >>
    /\ pc' = "t_arm"
    /\ UNCHANGED confVars
    /\ UNCHANGED <<out, vs_range, level_vals, instr_range, clock, err>>
    /\ UNCHANGED sessVars

\* _do_sweep, line 258: the armed sequence drives the source
TseqArm ==
    /\ pc = "t_arm"
    /\ out' = TRUE
    /\ cmds' = Append(cmds, <<"tseq_arm", 0>>)
    /\ pc' = "t_wait"
    /\ UNCHANGED confVars
    /\ UNCHANGED <<vs_range, level_vals, instr_range, clock, err>>
    /\ UNCHANGED sessVars

\* _do_sweep, lines 260-264: (stop-start)//step raises for step = 0
TseqWait ==
    /\ pc = "t_wait"
    /\ IF sweep.step = 0
       THEN Raise("ZeroDivisionError")
       ELSE /\ pc' = "t_fetch"
            /\ UNCHANGED err
    /\ UNCHANGED confVars
    /\ UNCHANGED instrVars
    /\ UNCHANGED sessVars

\* line 270: current[current > 1] = np.nan
TseqRemoveBadPoints(curr) ==
    [j \in 1..Len(curr) |-> IF GtOne(curr[j]) THEN NaN ELSE curr[j]]

\* _do_sweep, lines 266-279
TseqFetch ==
    /\ pc = "t_fetch"
    /\ \E buf \in [1..TseqPoints -> dut[1]] :
         LET rec == [sweep |-> sweep.i + 1,
                     current |-> TseqRemoveBadPoints(buf),
                     voltage |-> [j \in 1..TseqPoints |->
                                    Num(sweep.start + (j - 1) * sweep.step)],
                     time |-> [j \in 1..TseqPoints |-> Num(clock + j)]]
         IN /\ saved' = Append(saved, rec)
            /\ data_dict' = Append(data_dict, rec)
    /\ clock' = clock + TseqPoints
    /\ cmds' = cmds \o << <<"tseq_voltage", 0>>, <<"tseq_current", 0>>,
                         <<"tseq_time", 0>> >>
    /\ pc' = "t_zero"
    /\ UNCHANGED confVars
    /\ UNCHANGED <<out, vs_range, level_vals, instr_range, err>>
    /\ UNCHANGED <<sweep, ramp, run, meas_range, logged>>

\* _do_sweep, lines 281-282
TseqZeroCheck ==
    /\ pc = "t_zero"
    /\ cmds' = Append(cmds, <<"zerocheck", 1>>)
    /\ sweep' = Reverse(sweep)
    /\ pc' = "t_off"
    /\ UNCHANGED confVars
    /\ UNCHANGED <<out, vs_range, level_vals, instr_range, clock, err>>
    /\ UNCHANGED <<ramp, run, meas_range, data_dict, saved, logged>>

\* _do_sweep, line 289, and the loop test of line 249
TseqOperateOff ==
    /\ pc = "t_off"
    /\ out' = FALSE
    /\ cmds' = Append(cmds, <<"operate", 0>>)
    /\ pc' = IF sweep.i < sweep_arguments.num_sweep THEN "t_setup" ELSE "log"
    /\ UNCHANGED confVars
    /\ UNCHANGED <<vs_range, level_vals, instr_range, clock, err>>
    /\ UNCHANGED sessVars

\* positions inside the try block of lines 250-282
TseqTryPcs == {"t_setup", "t_arm", "t_wait", "t_fetch", "t_zero"}

\* variant: the handler aborts the sequence but leaves the output as it is
TseqHandlerNoOff == [out |-> out, pc |-> "log", log |-> << <<"tseq_abort", 0>> >>]

\* what the handler of lines 284-288 does to the output and the loop
TseqHandler == [out |-> FALSE, pc |-> "log",
                log |-> << <<"tseq_abort", 0>>, <<"operate", 0>> >>]

\* KeyboardInterrupt inside the try block, lines 284-288
TseqInterrupt ==
    /\ pc \in TseqTryPcs
    /\ out' = TseqHandler.out
    /\ cmds' = cmds \o TseqHandler.log
    /\ pc' = TseqHandler.pc
    /\ err' = "KeyboardInterrupt handled"
    /\ UNCHANGED confVars
    /\ UNCHANGED <<vs_range, level_vals, instr_range, clock>>
    /\ UNCHANGED sessVars

\* KeyboardInterrupt outside the try block (line 289, lines 291-293)
TseqInterruptOutside ==
    /\ mode = "tseq"
    /\ pc \in {"t_off", "log"}
    /\ Raise("KeyboardInterrupt")
    /\ UNCHANGED confVars
    /\ UNCHANGED instrVars
    /\ UNCHANGED sessVars

\* a read or write of the instrument fails; only KeyboardInterrupt is caught
TseqDeviceError ==
    /\ pc \in {"t_setup", "t_arm", "t_wait", "t_fetch", "t_zero", "t_off"}
    /\ Raise("DeviceError")
    /\ UNCHANGED confVars
    /\ UNCHANGED instrVars
    /\ UNCHANGED sessVars

\* _do_sweep, lines 291-293; start_sweep returns
TseqLogData ==
    /\ pc = "log"
    /\ mode = "tseq"
    /\ logged' = <<data_dict>>
    /\ pc' = "done"
    /\ UNCHANGED confVars
    /\ UNCHANGED instrVars
    /\ UNCHANGED <<err, sweep, ramp, run, meas_range, data_dict, saved>>

-----------------------------------------------------------------------------

Next ==
    \/ SetParameters
    \/ ConfigureCustomized
    \/ StartSweep
    \/ CheckVsourceRange
    \/ OperateOn
    \/ ReadMeasRange
    \/ SetLevel
    \/ ReadSample
    \/ RangeStep
    \/ FinishSingleRun
    \/ AfterSingleRun
    \/ LogData
    \/ FinalOperateOff
    \/ DeviceError
    \/ UserInterrupt
    \/ ConfigureTseq
    \/ StartSweepTseq
    \/ TseqSetup
    \/ TseqArm
    \/ TseqWait
    \/ TseqFetch
    \/ TseqZeroCheck
    \/ TseqOperateOff
    \/ TseqInterrupt
    \/ TseqInterruptOutside
    \/ TseqDeviceError
    \/ TseqLogData

Spec == Init /\ [][Next]_vars

\* the statements of a customized session that is under way: start_sweep is
\* sequential code, so once a statement is reached it is executed
SessionStep ==
    \/ CheckVsourceRange
    \/ OperateOn
    \/ ReadMeasRange
    \/ SetLevel
    \/ ReadSample
    \/ RangeStep
    \/ FinishSingleRun
    \/ AfterSingleRun
    \/ LogData
    \/ FinalOperateOff

\* a CustomizedStaircaseSweep object, just constructed
LiveInit == Init /\ mode = "customized"

\* the calls and statements of a customized session that meets neither an
\* instrument failure nor a user interrupt
LiveNext ==
    \/ SetParameters
    \/ ConfigureCustomized
    \/ StartSweep
    \/ SessionStep

\* such a session keeps running until it ends or its own code raises
LiveSpec == LiveInit /\ [][LiveNext]_vars /\ WF_vars(SessionStep)

-----------------------------------------------------------------------------
(* Helpers of the properties *)

\* ceil(a / b) for b # 0
CeilDiv(a, b) ==
    IF (a > 0 /\ b > 0) \/ (a < 0 /\ b < 0)
    THEN (AbsInt(a) + AbsInt(b) - 1) \div AbsInt(b)
    ELSE 0

\* start, start+step, ... strictly before stop, in closed form
Progression(start, stop, step) ==
    [j \in 1..CeilDiv(stop - start, step) |-> start + (j - 1) * step]

\* the entries of a command log with the given name
Named(log, nm) == SelectSeq(log, LAMBDA x : x[1] = nm)

\* index of the last command that enabled the source output (0 if none)
LastOperateOn(log) ==
    LET S == { j \in 1..Len(log) : log[j] = <<"res_vsource_operate", 1>> }
    IN IF S = {} THEN 0 ELSE CHOOSE j \in S : \A q \in S : q <= j

\* source levels commanded since the output was last enabled
LevelsOfSweep(log) ==
    LET tail == SubSeq(log, LastOperateOn(log) + 1, Len(log))
        lv == Named(tail, "res_vsource_level")
    IN [j \in 1..Len(lv) |-> lv[j][2]]

\* no command of a sweep is in the log
NoSweepCommand(log) ==
    \A j \in 1..Len(log) :
        /\ log[j][1] \notin {"res_vsource_level", "get_data", "tseq_arm",
                             "tseq_current", "meas_range"}
        /\ log[j] # <<"res_vsource_operate", 1>>

SessionOver == pc \in {"done", "failed"}

-----------------------------------------------------------------------------
(* Properties *)

\* C1: whenever a CustomizedStaircaseSweep session has ended (normally, by a
\* refused interlock check, by an instrument error or by a user interrupt)
\* the source output is disabled.
C1_OutputOffWhenSessionEnds ==
    (mode = "customized" /\ SessionOver) => ~out

\* C2: with max_v above 36 V and the interlock reported open, the session
\* fails before the output is enabled, before any level is commanded and
\* before any sample is read; no sweep is run.
C2_InterlockRefusalBeforeAnySweep ==
    (interlock = "open" /\ sweep_arguments.max_v > HazardVoltage)
        => /\ pc = "failed"
           /\ err = "RuntimeError"
           /\ ~out
           /\ NoSweepCommand(cmds)
           /\ saved = <<>>
           /\ data_dict = <<>>

C2_Witness ==
    /\ interlock = "open"
    /\ sweep_arguments.max_v = 40
    /\ pc = "failed"
    /\ err = "RuntimeError"

C4_DeviceErrorKeepsCompletedSweeps ==
    (mode = "customized" /\ pc = "failed" /\ err = "DeviceError")
        => /\ Len(saved) = sweep.i
           /\ \A j \in 1..sweep.i :
                /\ saved[j].sweep = j
                /\ saved[j] = data_dict[j]
                /\ Len(saved[j].current)
                     = CeilDiv(2 * sweep_arguments.max_v, sweep_arguments.step_v)
                         * sweep_arguments.npts_per_step

C4_Witness ==
    /\ mode = "customized"
    /\ pc = "failed"
    /\ err = "DeviceError"
    /\ sweep.i = 1
    /\ Len(saved) = 1
    /\ Len(run.curr) >= 1

\* the voltage array holds each step voltage npts_per_step times in a row;
\* with lenient = TRUE an entry may also be missing
StepLayout(volt, lenient) ==
    \A j \in 1..Len(volt) :
        \/ lenient /\ volt[j].nan
        \/ volt[j] = Num(sweep.start
                           + ((j - 1) \div sweep_arguments.npts_per_step) * sweep.step)

SweepCounts ==
    LET n == CeilDiv(sweep.stop - sweep.start, sweep.step)
                * sweep_arguments.npts_per_step
    IN /\ Len(run.curr) = n
       /\ Len(run.volt) = n
       /\ Len(run.time) = n

\* _single_run has just returned the arrays of a completed sweep
SweepCompleted == mode = "customized" /\ pc = "after_run"

\* C5 as stated: a completed sweep holds ceil((stop-start)/step) *
\* points_per_step samples in each array, each step voltage appearing
\* points_per_step times in a row.
C5_Original ==
    SweepCompleted => (SweepCounts /\ StepLayout(run.volt, FALSE))

\* C5 (amended): a completed sweep holds ceil((stop-start)/step) *
\* points_per_step samples in each array; every voltage entry holds the
\* voltage of its step or, once invalidated by the sticky-fault guard, missing.
C5_SampleCount ==
    SweepCompleted => (SweepCounts /\ StepLayout(run.volt, TRUE))

C5_Witness ==
    /\ SweepCompleted
    /\ sweep_arguments.npts_per_step = 2
    /\ sweep_arguments.max_v = 3
    /\ Len(run.volt) = 6
    /\ \E j \in 1..Len(run.volt) : run.volt[j].nan = FALSE

\* the scenario max_v=10, step_v=2, points_per_step=1, start_from='max'
Scenario10 ==
    /\ sweep_arguments.max_v = 10
    /\ sweep_arguments.step_v = 2
    /\ sweep_arguments.npts_per_step = 1
    /\ sweep_arguments.start_from = "max"

Recorded10 == [j \in 1..10 |-> Num(12 - 2 * j)]

\* the levels commanded in the sweep are the progression up to, not
\* including, stop
CommandedProgression ==
    LevelsOfSweep(cmds) = Progression(sweep.start, sweep.stop, sweep.step)

\* C6 as stated: the voltages commanded and recorded in a sweep are start,
\* start+step, ... strictly before stop; the scenario records [10, ..., -8].
C6_Original ==
    SweepCompleted
        => /\ CommandedProgression
           /\ StepLayout(run.volt, FALSE)
           /\ Len(run.volt) = CeilDiv(sweep.stop - sweep.start, sweep.step)
                                * sweep_arguments.npts_per_step
           /\ (Scenario10 /\ sweep.i = 0 => run.volt = Recorded10)

\* C6 (amended): the voltages commanded in a sweep are start, start+step, ...
\* strictly before stop, and they are recorded in that order, except that an
\* entry invalidated by the sticky-fault guard is recorded as missing; the
\* scenario records [10, 8, 6, 4, 2, 0, -2, -4, -6, -8].
C6_HalfOpenProgression ==
    SweepCompleted
        => /\ CommandedProgression
           /\ StepLayout(run.volt, TRUE)
           /\ Len(run.volt) = CeilDiv(sweep.stop - sweep.start, sweep.step)
                                * sweep_arguments.npts_per_step
           /\ \A j \in 1..Len(LevelsOfSweep(cmds)) :
                 LevelsOfSweep(cmds)[j] # sweep.stop
           /\ (Scenario10 /\ sweep.i = 0 => run.volt = Recorded10)

C6_Witness ==
    /\ SweepCompleted
    /\ Scenario10
    /\ sweep.i = 0
    /\ run.volt = Recorded10
    /\ LevelsOfSweep(cmds) = <<10, 8, 6, 4, 2, 0, -2, -4, -6, -8>>

\* element-wise negation of a voltage array (missing stays missing)
Negated(volt) ==
    [j \in 1..Len(volt) |->
        IF volt[j].nan THEN volt[j] ELSE Num(-volt[j].val)]

\* entry by entry the two arrays are negations, unless one entry is missing
NegatedOrMissing(a, b) ==
    /\ Len(a) = Len(b)
    /\ \A j \in 1..Len(a) : a[j].nan \/ b[j].nan \/ b[j].val = -a[j].val

\* C7 as stated: the voltage sequence of sweep k+1 is the exact element-wise
\* negation of that of sweep k, whatever the readings.
C7_Original ==
    mode = "customized"
        => \A k \in 1..(Len(data_dict) - 1) :
              data_dict[k + 1].voltage = Negated(data_dict[k].voltage)

\* C7 (amended): the voltage sequences of sweeps k and k+1 have the same
\* length and each entry of sweep k+1 is the negation of the entry of sweep
\* k, except where one of the two was invalidated by the sticky-fault guard.
C7_AlternatingDirection ==
    mode = "customized"
        => \A k \in 1..(Len(data_dict) - 1) :
              NegatedOrMissing(data_dict[k].voltage, data_dict[k + 1].voltage)

C7_Witness ==
    /\ mode = "customized"
    /\ Len(data_dict) = 2
    /\ Len(data_dict[1].voltage) >= 2
    /\ data_dict[2].voltage = Negated(data_dict[1].voltage)
    /\ data_dict[1].voltage[1].nan = FALSE
    /\ data_dict[1].voltage[1].val # 0

\* the arguments of the last call are out of the documented bounds
OutOfBounds(c) ==
    \/ c.max_v < 0
    \/ c.max_v > MaxVoltage
    \/ c.step_v < 0
    \/ c.step_v > c.max_v

\* C8: set_parameters rejects a max_v outside [0, 1000] and a step_v outside
\* [0, max_v] with an error, issuing no instrument command and leaving the
\* stored sweep parameters and the measurement name as they were.
C8_RejectionLeavesParameters ==
    [][ (last_call'.op = "set_parameters" /\ OutOfBounds(last_call'))
          => /\ err' \in {"ValueError", "TypeError"}
             /\ sweep_arguments' = sweep_arguments
             /\ name' = name
             /\ cmds' = cmds
             /\ pc' = "idle" ]_vars

C8_Witness ==
    /\ last_call.op = "set_parameters"
    /\ last_call.max_v = 3
    /\ last_call.step_v = 4
    /\ err = "ValueError"
    /\ sweep_arguments # NoArgs
    /\ sweep_arguments.max_v = 40
    /\ cmds # <<>>

\* C9: a step_v of 0 is rejected by set_parameters, so no sweep starts with a
\* zero step (the output is never enabled for it) and no failure caused by a
\* zero step occurs mid-sweep.
C9_ZeroStepRejected ==
    /\ (last_call.op = "set_parameters" /\ last_call.step_v = 0) => err # ""
    /\ (sweep_arguments # NoArgs /\ sweep_arguments.step_v = 0) => ~out
    /\ err # "ZeroDivisionError"

\* C10: in auto range mode a step of the sweep issues no measurement-range
\* command and leaves the recorded range as it was, whatever the reading.
C10_AutoRangeNoDecision ==
    [][ (mode = "customized" /\ auto_range /\ pc = "range")
          => /\ meas_range' = meas_range
             /\ Named(cmds', "meas_range") = Named(cmds, "meas_range")
             /\ instr_range' = instr_range ]_vars

C10_Witness ==
    /\ mode = "customized"
    /\ auto_range
    /\ pc = "finish"
    /\ meas_range = FragileRangeExp
    /\ Len(run.curr) >= 2
    /\ run.curr[1] = Overflow
    /\ Named(cmds, "meas_range") = <<>>

-----------------------------------------------------------------------------
(* Range decision of a manual-range step *)

\* the range decision of a step is about to run in manual range mode
ManualStep == mode = "customized" /\ pc = "range" /\ ~auto_range

\* the step has run to its end: no exception left _single_run during it
StepDone == pc \in {"level", "finish"}

\* magnitude of the reading the decision of the step is taken from
StepReading == Abs(run.c[1])

\* the candidates as the specification writes them: 2*10^floor(log10(r/2))
\* and 2*10^ceil(log10(r/2)), a reading without logarithm taking the clamped
\* pair
FloorCandidate(absr) == IF absr.m = 0 THEN ClampFlrExp ELSE FloorLog(absr)
CeilingCandidate(absr) == IF absr.m = 0 THEN ClampCerExp ELSE CeilLog(absr)

\* the sticky-fault guard writes the safe range at this step
GuardForces ==
    GuardWrite(meas_range,
               IF GuardCounts(StepReading, meas_range)
               THEN run.flag142pA + 1 ELSE run.flag142pA) # <<>>

\* the measurement-range commands issued by the step
RangeCommands(before, after) ==
    LET new == SubSeq(after, Len(before) + 1, Len(after))
    IN [j \in 1..Len(Named(new, "meas_range")) |-> Named(new, "meas_range")[j][2]]

\* the first measurement-range command of the step carries the value k
FirstCommandIs(k) ==
    /\ RangeCommands(cmds, cmds') # <<>>
    /\ RangeCommands(cmds, cmds')[1] = k

\* C11 as stated: in manual range mode, whenever the range in effect at a
\* step is greater than the ceiling candidate 2*10^ceil(log10(|reading|/2))
\* of the step's reading, the range in effect after the step is that ceiling.
C11_Original ==
    [][ (ManualStep /\ StepReading.m # 0 /\ StepDone'
           /\ meas_range > CeilingCandidate(StepReading))
          => meas_range' = CeilingCandidate(StepReading) ]_vars

\* C11 (amended): in manual range mode, whenever the range in effect at a
\* step is greater than the ceiling the code computes for the step's reading
\* (2*10^ceil(log10(|reading|/2)), 2e-11 where that is below 2e-15, and 2e-8
\* instead of 2e-9 for a reading above 0.8e-9), that ceiling is commanded;
\* it is the range in effect after the step unless the range was 2e-10 with
\* the sticky-fault counter at 5 or more, where 2e-9 is commanded after it.
C11_NarrowToCeiling ==
    [][ (ManualStep /\ StepDone' /\ meas_range > Cer(StepReading))
          => /\ FirstCommandIs(Cer(StepReading))
             /\ meas_range' = IF GuardForces THEN SafeRangeExp
                              ELSE Cer(StepReading) ]_vars

C11_Witness ==
    /\ mode = "customized"
    /\ ~auto_range
    /\ StepDone
    /\ dut = <<{Zero}>>
    /\ Len(run.curr) = sweep_arguments.npts_per_step
    /\ meas_range = ClampCerExp
    /\ cmds[Len(cmds)] = <<"meas_range", ClampCerExp>>
    /\ <<"meas_range", ClampCerExp>> \notin
          { cmds[j] : j \in 1..(Len(cmds) - 1) }

OverflowRule ==
    IF meas_range <= OverflowCapExp
    THEN /\ meas_range' = meas_range + 1
         /\ FirstCommandIs(meas_range + 1)
    ELSE /\ meas_range' = meas_range
         /\ RangeCommands(cmds, cmds') = <<>>

\* C13 as stated: in manual range mode, whenever the reading magnitude is at
\* least 1 and the range in effect is at most 2e-3, the range after the step
\* is ten times the previous range; with a range above 2e-3 it is unchanged,
\* so the overflow path never raises the range above 2e-2.
C13_Original ==
    [][ (ManualStep /\ StepDone' /\ MagGe(StepReading, Rd(1, 100, -2)))
          => (OverflowRule /\ meas_range' <= MaxCurrentRangeExp) ]_vars

\* C13 (amended): in manual range mode, whenever the reading magnitude is
\* greater than 1 and the range in effect is at most 2e-3, the range after
\* the step is ten times the previous range; with a range above 2e-3 it is
\* unchanged, so the overflow path never raises the range above 2e-2.
C13_OverflowWidens ==
    [][ (ManualStep /\ StepDone' /\ MagGt(StepReading, Rd(1, 100, -2)))
          => (OverflowRule /\ meas_range' <= MaxCurrentRangeExp) ]_vars

C13_Witness ==
    /\ mode = "customized"
    /\ ~auto_range
    /\ pc = "finish"
    /\ dut = <<{Overflow}>>
    /\ Len(run.curr) = 10
    /\ meas_range = MaxCurrentRangeExp
    /\ [j \in 1..Len(Named(cmds, "meas_range")) |-> Named(cmds, "meas_range")[j][2]]
          = <<-7, -6, -5, -4, -3, -2>>

\* the step issues no measurement-range command and leaves the range alone
RangeUntouched ==
    /\ meas_range' = meas_range
    /\ instr_range' = instr_range
    /\ RangeCommands(cmds, cmds') = <<>>

\* C14 as stated: in manual range mode, when the range in effect at a step
\* is strictly above the floor candidate and at most the ceiling candidate of
\* the step's reading, no measurement-range command is issued and the range
\* is the same after the step as before it.
C14_Original ==
    [][ (ManualStep /\ StepDone'
           /\ FloorCandidate(StepReading) < meas_range
           /\ meas_range <= CeilingCandidate(StepReading))
          => RangeUntouched ]_vars

\* C14 (amended): in manual range mode, when the range in effect at a step
\* is strictly above the floor and at most the ceiling the code computes for
\* the step's reading, and the sticky-fault guard does not fire at the step,
\* no measurement-range command is issued and the range is the same after
\* the step as before it.
C14_NoChangeBetween ==
    [][ (ManualStep /\ StepDone' /\ ~GuardForces
           /\ Flr(StepReading) < meas_range
           /\ meas_range <= Cer(StepReading))
          => RangeUntouched ]_vars

C14_Witness ==
    /\ mode = "customized"
    /\ ~auto_range
    /\ StepDone
    /\ dut = <<{InBand}>>
    /\ meas_range = FragileRangeExp
    /\ run.flag142pA = 2
    /\ Len(run.curr) = 2 * sweep_arguments.npts_per_step
    /\ Named(cmds, "meas_range") = <<>>

\* the reading magnitude is below 2e-15, zero included
NearZero(absr) == absr.m = 0 \/ MagGt(Rd(1, 200, -17), absr)

\* C15: for every reading magnitude below 2e-15 (zero included) the floor and
\* ceiling used by the range decision of a manual-range step are the fixed
\* pair floor = 2e-13, ceiling = 2e-11; the floor never exceeds the ceiling.
C15_ClampedPair ==
    (ManualStep /\ NearZero(StepReading))
        => /\ Flr(StepReading) = ClampFlrExp
           /\ Cer(StepReading) = ClampCerExp
           /\ Flr(StepReading) <= Cer(StepReading)

-----------------------------------------------------------------------------
(* Sticky-fault guard *)

\* the set of sample indices (0-based) the guard has flagged in the sweep
Flagged == { run.flag142pAidx[j] : j \in 1..Len(run.flag142pAidx) }

\* sample indices (0-based) of the first reading of step n, and of all the
\* readings of step n
FirstSampleOf(n) == n * sweep_arguments.npts_per_step
SamplesOf(n) ==
    { n * sweep_arguments.npts_per_step + q :
        q \in 0..(sweep_arguments.npts_per_step - 1) }

\* steps of the sweep the guard has counted: the reading was in the problem
\* band at the fragile range
CountedSteps == Flagged

\* the step counted last has just been appended to the arrays of the sweep
JustCounted ==
    /\ mode = "customized"
    /\ ~auto_range
    /\ StepDone
    /\ run.flag142pAidx # <<>>
    /\ Len(run.curr) = (run.flag142pAidx[Len(run.flag142pAidx)] + 1)
                          * sweep_arguments.npts_per_step

\* the last k counted steps followed one another
InARow(k) ==
    /\ Len(run.flag142pAidx) >= k
    /\ \A j \in (Len(run.flag142pAidx) - k + 1)..(Len(run.flag142pAidx) - 1) :
          run.flag142pAidx[j + 1] = run.flag142pAidx[j] + 1

\* C16: after 5 consecutive steps with the reading in the problem band at
\* the fragile range, the range has been forced to 2e-9 at the 5th step and
\* the flagged sample indices are exactly those of the 5 samples (the first
\* readings of the 5 steps, or all the samples of the 5 steps).
C16_GuardFlagsThoseSamples ==
    (JustCounted /\ run.flag142pA = Flag142Limit /\ InARow(Flag142Limit))
        => /\ meas_range = SafeRangeExp
           /\ cmds[Len(cmds)] = <<"meas_range", SafeRangeExp>>
           /\ \/ Flagged = { FirstSampleOf(n) : n \in CountedSteps }
              \/ Flagged = UNION { SamplesOf(n) : n \in CountedSteps }

\* this step and the four steps before it all had their reading in the
\* problem band at the fragile range
FiveInARowNow ==
    /\ GuardCounts(StepReading, meas_range)
    /\ Len(run.flag142pAidx) >= Flag142Limit - 1
    /\ \A j \in 1..(Flag142Limit - 1) :
          run.flag142pAidx[Len(run.flag142pAidx) - (Flag142Limit - 1) + j]
             = run.n - Flag142Limit + j

\* some Flag142Limit steps in a row were counted in the sweep
SomeFiveInARow ==
    \E n \in Flagged : \A q \in 0..(Flag142Limit - 1) : n + q \in Flagged

\* C17: the guard counts consecutive in-band samples only: the range is
\* forced to the safe value at a step only when that step and the four steps
\* before it were in band at the fragile range, and samples of a completed
\* sweep are invalidated only if five steps in a row were in band.
C17_ConsecutiveOnly ==
    /\ (ManualStep /\ GuardForces) => FiveInARowNow
    /\ (SweepCompleted /\ \E j \in 1..Len(run.time) : run.time[j].nan)
          => SomeFiveInARow

\* every sample taken in the sweep so far was in the problem band
ReadingsStayInBand ==
    /\ \A j \in 1..Len(run.curr) : InProblemBand(Abs(run.curr[j]))
    /\ \A j \in 1..Len(run.c) : InProblemBand(Abs(run.c[j]))

\* C18: once the guard has forced the range to 2e-9 in a sweep, the range is
\* at the safe value after every following step of the sweep while the
\* readings stay in the problem band (no alternation with the fragile range).
C18_ForcedRangeStays ==
    (mode = "customized" /\ ~auto_range /\ StepDone
       /\ run.flag142pA >= Flag142Limit /\ ReadingsStayInBand)
        => meas_range = SafeRangeExp

-----------------------------------------------------------------------------
(* Invalidation of samples after the ramp *)

\* the commands of the sweep under way, since the output was enabled
SweepLog == SubSeq(cmds, LastOperateOn(cmds) + 1, Len(cmds))

\* the steps (0-based) of the sweep at which the smallest range was commanded
NarrowedToLowestAt ==
    { Len(Named(SubSeq(SweepLog, 1, j), "res_vsource_level")) - 1 :
        j \in { q \in 1..Len(SweepLog) :
                  SweepLog[q] = <<"meas_range", LowestRangeExp>> } }

\* a sample recorded after step n is missing from the arrays of the sweep
MissingAfter(n) ==
    \E j \in ((n + 1) * sweep_arguments.npts_per_step + 1)..Len(run.curr) :
        run.curr[j] = NaN \/ run.time[j].nan \/ run.volt[j].nan

\* C19: a narrowing that lands on the smallest supported range flags the
\* next samples as unreliable, and they are overwritten with missing after
\* the ramp: in a completed sweep, samples recorded after such a step are
\* missing.
C19_NarrowingFlagsNextSamples ==
    (SweepCompleted /\ ~auto_range)
        => \A n \in NarrowedToLowestAt :
              (n + 1) * sweep_arguments.npts_per_step < Len(run.curr)
                 => MissingAfter(n)

\* indices (0-based) of the samples whose entries are missing in an array
MissingIn(arr) == { j - 1 : j \in { q \in 1..Len(arr) : arr[q].nan } }
MissingCurrent == { j - 1 : j \in { q \in 1..Len(run.curr) : run.curr[q] = NaN } }

\* the samples the flagged-index mechanism is to overwrite: those recorded
\* at the steps the guard counted, once it has fired
SamplesOfFlaggedSteps ==
    IF run.flag142pA >= Flag142Limit
    THEN UNION { SamplesOf(n) : n \in CountedSteps }
    ELSE {}

FirstSamplesOfFlaggedSteps ==
    IF run.flag142pA >= Flag142Limit
    THEN { FirstSampleOf(n) : n \in CountedSteps }
    ELSE {}

\* C20: flagged indices are applied only after the full ramp, and for every
\* points_per_step the samples whose current, time and voltage entries are
\* overwritten with missing are exactly the samples recorded at the steps the
\* guard flagged (all of them, or the first reading of each).
C20_FlaggedSamplesOnly ==
    /\ (mode = "customized" /\ pc \in {"level", "read", "range", "finish"})
          => (MissingIn(run.time) = {} /\ MissingIn(run.volt) = {})
    /\ (SweepCompleted /\ ~auto_range)
          => /\ MissingIn(run.time) = MissingIn(run.volt)
             /\ MissingIn(run.time) \subseteq MissingCurrent
             /\ \/ MissingIn(run.time) = SamplesOfFlaggedSteps
                \/ MissingIn(run.time) = FirstSamplesOfFlaggedSteps

-----------------------------------------------------------------------------
(* Returned sweep records *)

\* the sample is a number of absolute value above 1
MagnitudeAboveOne(r) == r.sg # 0 /\ MagGt(Abs(r), Rd(1, 100, -2))

\* C21: no current sample of absolute value above 1 (positive or negative
\* overflow) remains in a returned sweep record: the arrays _single_run
\* returns and every record of data_dict and of the datasaver are free of it.
C21_NoOverflowSampleRemains ==
    /\ SweepCompleted
          => \A j \in 1..Len(run.curr) : ~MagnitudeAboveOne(run.curr[j])
    /\ \A k \in 1..Len(data_dict) :
          \A j \in 1..Len(data_dict[k].current) :
              ~MagnitudeAboveOne(data_dict[k].current[j])
    /\ \A k \in 1..Len(saved) :
          \A j \in 1..Len(saved[k].current) :
              ~MagnitudeAboveOne(saved[k].current[j])

-----------------------------------------------------------------------------
(* Commands of the range decision *)

\* the current ranges of the instrument, 2e-11 .. 2e-2, as exponents
SupportedRanges == LowestRangeExp..MaxCurrentRangeExp

\* C22: the range decision of a manual-range step never fails: every range
\* value it commands is a supported range of the instrument, not above the
\* bound the driver accepts, and the range write raises no error.
C22_RangeWriteNeverFails ==
    [][ ManualStep
          => /\ err' # "ValueError"
             /\ \A j \in 1..Len(RangeCommands(cmds, cmds')) :
                   RangeCommands(cmds, cmds')[j] \in SupportedRanges ]_vars

-----------------------------------------------------------------------------
(* Consecutive steps *)

\* positions in the log of the sweep of the level commands
LevelPositions == { j \in 1..Len(SweepLog) : SweepLog[j][1] = "res_vsource_level" }

\* the step before the one under way issued no measurement-range command
PreviousStepSilent ==
    /\ Cardinality(LevelPositions) >= 2
    /\ LET last == CHOOSE j \in LevelPositions : \A q \in LevelPositions : q <= j
           prev == CHOOSE j \in LevelPositions \ {last} :
                      \A q \in LevelPositions \ {last} : q <= j
       IN \A j \in prev..last : SweepLog[j][1] # "meas_range"

\* magnitude of the reading the decision of the previous step was taken from
PreviousReading ==
    Abs(run.curr[Len(run.curr) - sweep_arguments.npts_per_step + 1])

\* a manual-range step follows a step with the same reading magnitude that
\* left the range alone
RepeatedStep ==
    /\ ManualStep
    /\ Len(run.curr) >= sweep_arguments.npts_per_step
    /\ PreviousStepSilent
    /\ PreviousReading = StepReading

\* C23 as stated: two consecutive steps with the same reading magnitude and
\* the same range in effect produce the same decision: if the first leaves
\* the range unchanged, the second leaves it unchanged too.
C23_Original ==
    [][ (RepeatedStep /\ StepDone') => RangeUntouched ]_vars

\* C23 (amended): two consecutive steps with the same reading magnitude, the
\* first of which issued no range command, produce the same decision, except
\* when the range is 2e-10, the reading is in the problem band and the second
\* step is the fifth the sticky-fault guard counts: then it commands 2e-9.
C23_RepeatedDecision ==
    [][ (RepeatedStep /\ StepDone')
          => IF /\ meas_range = FragileRangeExp
                /\ InProblemBand(StepReading)
                /\ run.flag142pA = Flag142Limit - 1
             THEN /\ RangeCommands(cmds, cmds') = <<SafeRangeExp>>
                  /\ meas_range' = SafeRangeExp
             ELSE RangeUntouched ]_vars

C23_Witness ==
    /\ mode = "customized"
    /\ ~auto_range
    /\ StepDone
    /\ dut = <<{Micro}>>
    /\ Len(run.curr) = 3 * sweep_arguments.npts_per_step
    /\ meas_range = CeilLog(Micro)
    /\ Len(Named(SweepLog, "meas_range")) = 1
    /\ Len(Named(SweepLog, "res_vsource_level")) = 3

-----------------------------------------------------------------------------
(* Range left in effect *)

\* the range 2*10^k is at least the magnitude absr
RangeHolds(k, absr) == MagGe(Rd(1, 200, k - 2), absr)

-----------------------------------------------------------------------------
(* Between the sweeps of a session *)

\* positions in the command log where a sweep enables the source output
SweepStarts == { j \in 1..Len(cmds) : cmds[j] = <<"res_vsource_operate", 1>> }

\* between positions i and j the output is disabled and then the session
\* waits for relax_time
PausedBetween(i, j) ==
    \E a \in (i + 1)..(j - 1) :
        /\ cmds[a] = <<"res_vsource_operate", 0>>
        /\ \E b \in (a + 1)..(j - 1) :
              cmds[b] = <<"sleep", sweep_arguments.relax_time>>
        /\ \A b \in (a + 1)..(j - 1) :
              cmds[b][1] \notin {"res_vsource_level", "get_data"}

\* C25: with a non-zero relax_time, between the end of a sweep and the start
\* of the next the output is disabled and the session pauses for relax_time;
\* the output is enabled again only when the next sweep starts.
C25_RelaxPauseBetweenSweeps ==
    (mode = "customized" /\ RelaxOff(sweep_arguments.relax_time))
        => \A i, j \in SweepStarts : i < j => PausedBetween(i, j)

-----------------------------------------------------------------------------
(* Source voltage range and levels *)

\* the start of a sweep checks the source range (pc vs_check) and goes on
SweepStartStep == mode = "customized" /\ pc = "vs_check" /\ pc' = "operate"

\* C26: the start of a sweep only ever widens the source voltage range: it
\* is raised when the sweep extremum exceeds the configured range, to a range
\* that holds the extremum, and otherwise left unchanged with no range
\* command; it is never lowered.
C26_SourceRangeOnlyWidened ==
    [][ SweepStartStep
          => /\ vs_range' >= vs_range
             /\ IF AbsInt(sweep.stop) > vs_range
                THEN /\ vs_range' > vs_range
                     /\ vs_range' >= AbsInt(sweep.stop)
                     /\ cmds' = Append(cmds, <<"res_vsource_range", vs_range'>>)
                ELSE /\ vs_range' = vs_range
                     /\ cmds' = cmds ]_vars

C26_Witness ==
    /\ mode = "customized"
    /\ pc = "operate"
    /\ sweep_arguments.max_v = 150
    /\ vs_range = VsHigh
    /\ Named(cmds, "res_vsource_range")
          = << <<"res_vsource_range", VsLow>>, <<"res_vsource_range", VsHigh>> >>

-----------------------------------------------------------------------------
(* Order of operations within a step *)

\* the commands a step issues after its level command when it reads n
\* samples: n times a wait followed by a read
ReadsOfStep(n) ==
    [j \in 1..(2 * n) |-> IF j % 2 = 1 THEN <<"sleep", 0>> ELSE <<"get_data", 0>>]

\* the log of a sweep from position p (a level command) up to position q - 1
\* is a whole step: the level, the waits and reads, then the range commands
\* of one decision (the rule's and the guard's, at most)
WholeStep(p, q) ==
    LET n == sweep_arguments.npts_per_step
    IN /\ q - p - 1 >= 2 * n
       /\ SubSeq(SweepLog, p + 1, p + 2 * n) = ReadsOfStep(n)
       /\ q - p - 1 - 2 * n <= 2
       /\ \A j \in (p + 2 * n + 1)..(q - 1) : SweepLog[j][1] = "meas_range"

\* every step of the sweep that has been followed by another step is whole
StepsAreWhole ==
    \A p, q \in LevelPositions :
        (p < q /\ \A r \in LevelPositions : ~(p < r /\ r < q)) => WholeStep(p, q)

\* the last operate command before position j of the command log
OutputEnabledAt(j) ==
    \E a \in 1..(j - 1) :
        /\ cmds[a] = <<"res_vsource_operate", 1>>
        /\ \A b \in (a + 1)..(j - 1) : cmds[b][1] # "res_vsource_operate"

\* every level command and every read was issued with the output enabled
CommandsUnderOutput ==
    \A j \in 1..Len(cmds) :
        cmds[j][1] \in {"res_vsource_level", "get_data"} => OutputEnabledAt(j)

\* the range commands of a step are those of the decision taken from the
\* first reading of the step
DecisionFromFirstReading ==
    (mode = "customized" /\ pc = "range" /\ StepDone')
        => /\ Len(run.c) = sweep_arguments.npts_per_step
           /\ RangeCommands(cmds, cmds')
                = RangeDecision(auto_range, run.c[1], meas_range, run.flag142pA,
                                run.flag142pAidx, run.n).writes
           /\ Len(cmds') = Len(cmds) + Len(RangeCommands(cmds, cmds'))

\* C27: in every step of a sweep the source level is commanded first, then
\* exactly points_per_step reads follow, each preceded by a wait, then one
\* range decision is taken, from the first reading of the step; every read
\* and every level command happens while the source output is enabled.
C27_StepOrder ==
    /\ [](mode = "customized" => (StepsAreWhole /\ CommandsUnderOutput))
    /\ [][DecisionFromFirstReading]_vars

C27_Witness ==
    /\ mode = "customized"
    /\ ~auto_range
    /\ pc = "range"
    /\ sweep_arguments.npts_per_step = 2
    /\ Cardinality(LevelPositions) = 2
    /\ run.curr = <<Micro, InBand>>
    /\ SweepLog = << <<"res_vsource_level", sweep.start>> >> \o ReadsOfStep(2)
                    \o << <<"meas_range", CeilLog(Micro)>>,
                          <<"res_vsource_level", sweep.start + sweep.step>> >>
                    \o ReadsOfStep(2)

-----------------------------------------------------------------------------
(* Completion of a session *)

\* a customized session has started its first sweep
SessionStarted == mode = "customized" /\ pc = "vs_check" /\ sweep.i = 0

\* the session is complete: num_sweep sweeps were run, each left one record,
\* and the records are keyed 1..num_sweep in the order of the sweeps
SessionComplete ==
    /\ pc = "done"
    /\ sweep.i = sweep_arguments.num_sweep
    /\ Cardinality(SweepStarts) = sweep_arguments.num_sweep
    /\ Len(data_dict) = sweep_arguments.num_sweep
    /\ \A k \in 1..Len(data_dict) : data_dict[k].sweep = k
    /\ saved = data_dict
    /\ logged = <<data_dict>>

\* C28: a customized session that meets no error or interrupt eventually
\* reaches completion after exactly num_sweep sweeps, with exactly one record
\* per sweep keyed 1..num_sweep in execution order, whatever the readings;
\* a session that is done is complete.
C28_SessionCompletes ==
    /\ SessionStarted ~> (pc = "failed" \/ SessionComplete)
    /\ []((mode = "customized" /\ pc = "done") => SessionComplete)

C28_Witness ==
    /\ mode = "customized"
    /\ SessionComplete
    /\ sweep_arguments.num_sweep = 2
    /\ sweep_arguments.step_v # 0
    /\ err = ""
    /\ Len(data_dict[2].current) >= 2

-----------------------------------------------------------------------------
(* Recorded and commanded measurement range *)

\* the range values commanded since the output was last enabled
RangeWritesOfSweep ==
    LET w == Named(SweepLog, "meas_range") IN [j \in 1..Len(w) |-> w[j][2]]

\* the sweep is between the read of the range at its start and its end
InsideSweep == pc \in {"level", "read", "range", "finish"}

\* the recorded range is the last range the sweep commanded
RecordedIsLastCommanded ==
    (mode = "customized" /\ ~auto_range /\ InsideSweep /\ RangeWritesOfSweep # <<>>)
        => meas_range = RangeWritesOfSweep[Len(RangeWritesOfSweep)]

\* the start of the sweep records the range read from the instrument
RecordedAtStart ==
    (mode = "customized" /\ pc = "get_range" /\ pc' \in {"level", "finish"})
        => meas_range' = instr_range

\* a step that commands no range keeps the recorded range, and nothing but
\* the decision of a step changes it
RecordedKept ==
    /\ (ManualStep /\ RangeCommands(cmds, cmds') = <<>>) => meas_range' = meas_range
    /\ (mode = "customized" /\ ~auto_range /\ pc \in {"level", "read"})
          => meas_range' = meas_range

\* C29: in manual range mode, after every step of a sweep the range the sweep
\* has recorded for its next decision equals the last range it commanded to
\* the instrument, or the range read from the instrument at the start of the
\* sweep if it commanded none.
C29_RecordedFollowsCommanded ==
    /\ []RecordedIsLastCommanded
    /\ [][RecordedAtStart /\ RecordedKept]_vars

\* a step has commanded 2e-15, which the instrument holds as 2e-11, and
\* a later step has commanded a range again
C29_Witness ==
    /\ mode = "customized"
    /\ ~auto_range
    /\ StepDone
    /\ Len(RangeWritesOfSweep) >= 2
    /\ \E j \in 1..Len(RangeWritesOfSweep) : RangeWritesOfSweep[j] < LowestRangeExp
    /\ meas_range = RangeWritesOfSweep[Len(RangeWritesOfSweep)]

-----------------------------------------------------------------------------
(* Source levels and the source range *)

\* the source range in effect at position j of the command log: the value of
\* the last res_vsource_range command before j (0 if none)
SourceRangeAt(j) ==
    LET S == { q \in 1..(j - 1) : cmds[q][1] = "res_vsource_range" }
    IN IF S = {} THEN 0 ELSE cmds[CHOOSE q \in S : \A p \in S : p <= q][2]

\* positions in the command log of the source levels commanded
LevelCommands == { j \in 1..Len(cmds) : cmds[j][1] = "res_vsource_level" }

\* every level commanded so far was within the source range then in effect
LevelsWithinRange ==
    \A j \in LevelCommands : AbsInt(cmds[j][2]) <= SourceRangeAt(j)

\* the level about to be commanded is within the source range and the bounds
\* of the level validator
NextLevelAccepted ==
    pc = "level" => /\ AbsInt(Head(ramp)) <= vs_range
                    /\ -level_vals <= Head(ramp)
                    /\ Head(ramp) <= level_vals

\* C30: after configure_k6517a, every source level commanded during any sweep
\* of a session has a magnitude not exceeding the source range configured at
\* that moment, and so passes the level validator of the driver, for every
\* max_v in [0, 1000] and either start direction.
C30_LevelsWithinSourceRange ==
    (mode = "customized" /\ configured) => (LevelsWithinRange /\ NextLevelAccepted)

\* a level above 100 V was commanded in a session configured for the 100 V
\* range
C30_Witness ==
    /\ mode = "customized"
    /\ configured
    /\ \E j \in LevelCommands : /\ AbsInt(cmds[j][2]) > VsLow
                                /\ SourceRangeAt(j) = VsHigh
    /\ \E j \in 1..Len(cmds) : cmds[j] = <<"res_vsource_range", VsLow>>

====
